---- MODULE Spec2Model ----
(***************************************************************************)
(* A model of the Trello REST client (package trello): the client, its     *)
(* board and list services and the entity methods, in their most capable   *)
(* variant (BoardService + ListService, List with Rename and Close).       *)
(*                                                                         *)
(* Strings are sequences of one-character strings.  The fixed text of a    *)
(* format string is kept as keyword symbols ("key", "lists", ...), each    *)
(* free of the delimiters / ? & = # % +, which are symbols of their own,   *)
(* so that a URL is built by concatenation, as fmt.Sprintf builds it, and  *)
(* is read back by splitting on the delimiters, as net/url reads it.       *)
(*                                                                         *)
(* Every operation is one synchronous call: one action each, the answer    *)
(* of the network being an input of the action.                            *)
(***************************************************************************)
EXTENDS Integers, Sequences, FiniteSets, TLC

VARIABLES
    c,        \* the client built by NewClient: its key and token
    board,    \* the Board the caller holds (GetBoard's last result), or Nil
    lists,    \* the collection the caller holds (Lists' last result), or Nil
    created,  \* the List the caller holds from Create, or Nil
    nsent,    \* requests handed to the HTTP transport so far
    lastReq,  \* the last request handed to the transport, or Nil
    open,     \* response bodies received and not closed
    calls,    \* operations called so far
    ret       \* what the last call did and returned

vars == <<c, board, lists, created, nsent, lastReq, open, calls, ret>>

---------------------------------------------------------------------------
(* Bounds of the model *)

\* longest `lists` array in a response body
MaxLists == 2
\* operations of one run
MaxCalls == 2

---------------------------------------------------------------------------
(* Strings *)

Nil == [nil |-> TRUE]

Strings(S, n) == UNION {[1..k -> S] : k \in 0..n}

\* -1 when x does not occur in s, else its first position
IndexOf(s, x) ==
    LET at == {i \in 1..Len(s) : s[i] = x}
    IN  IF at = {} THEN -1 ELSE CHOOSE i \in at : \A j \in at : i <= j

\* strings.Split: the pieces of s between the occurrences of d
RECURSIVE Split(_, _)
Split(s, d) ==
    LET i == IndexOf(s, d)
    IN  IF i = -1 THEN <<s>>
        ELSE <<SubSeq(s, 1, i - 1)>> \o Split(SubSeq(s, i + 1, Len(s)), d)

\* characters url.QueryEscape leaves as they are (letters, digits, - _ . ~)
Unreserved ==
    {"a", "b", "k", "t", "x", "B", "L", "1", "2", "3", "5", "6", "D", "F",
     "-", "_", ".", "~"}

\* the two hexadecimal digits of a character's code
HexOf(ch) ==
    CASE ch = " " -> <<"2", "0">>
      [] ch = "#" -> <<"2", "3">>
      [] ch = "%" -> <<"2", "5">>
      [] ch = "&" -> <<"2", "6">>
      [] ch = "+" -> <<"2", "B">>
      [] ch = "/" -> <<"2", "F">>
      [] ch = "=" -> <<"3", "D">>
      [] ch = "?" -> <<"3", "F">>

\* list names a caller gives: any text, reserved characters included
Names ==
    {<<"a">>, <<"a", " ", "b">>, <<"a", "&", "b">>, <<"5", "%">>,
     <<"a", "+", "b">>, <<"x", "=", "1">>}

\* the earlier variant of Rename formatted the name as it was given
QueryEscapeRaw(s) == s

\* url.QueryEscape: a space becomes +, a reserved character %XX
RECURSIVE QueryEscape(_)
QueryEscape(s) ==
    IF s = <<>> THEN <<>>
    ELSE (IF Head(s) = " " THEN <<"+">>
          ELSE IF Head(s) \in Unreserved THEN <<Head(s)>>
          ELSE <<"%">> \o HexOf(Head(s)))
         \o QueryEscape(Tail(s))

---------------------------------------------------------------------------
(* The client and the HTTP exchange *)

NoErr == [kind |-> "nil", msg |-> <<>>]
TransportErr == [kind |-> "transport", msg |-> <<"dial tcp: connection refused">>]
DecodeErr == [kind |-> "decode", msg |-> <<"invalid character">>]
ParseErr == [kind |-> "request", msg |-> <<"parse: invalid URL">>]

\* credentials, identifiers and positions as the remote service issues
\* them: unreserved characters only (the code formats them unescaped)
Keys == {<<"k">>, <<"k", "2">>}
Tokens == {<<>>, <<"t">>}
BoardIDs == {<<"B", "1">>}
ListIDs == {<<"L", "1">>, <<"L", "2">>}
Positions == {<<>>, <<"t", "o", "p">>}

NewClient(key, token) == [key |-> key, token |-> token]

baseURL == <<"https://api.trello.com">>

Control == {"\n", "\t"}
HexDigits == {"0", "1", "2", "3", "5", "6", "B", "D", "F"}

\* the URL without its fragment, and its parts before and after the first ?
NoFragment(url) == Head(Split(url, "#"))
PathOf(url) == Head(Split(NoFragment(url), "?"))
RawQuery(url) ==
    LET u == NoFragment(url)
        i == IndexOf(u, "?")
    IN  IF i = -1 THEN <<>> ELSE SubSeq(u, i + 1, Len(u))

\* every % of s starts a %XX escape
EscapesOK(s) ==
    \A i \in 1..Len(s) :
        s[i] = "%" =>
            /\ i + 2 <= Len(s)
            /\ s[i + 1] \in HexDigits
            /\ s[i + 2] \in HexDigits

\* http.NewRequest: url.Parse refuses a control character and a bad escape
\* in the path, and keeps the query as it is written.  Identifiers of
\* unreserved characters and escaped names never make it fail.
NewRequest(method, url) ==
    IF (\E i \in 1..Len(url) : url[i] \in Control) \/ ~EscapesOK(PathOf(url))
    THEN [err |-> ParseErr, req |-> Nil]
    ELSE [err |-> NoErr, req |-> [method |-> method, url |-> url]]

\* the status lines a server may answer with, and the code of each
StatusLines ==
    {"101 Switching Protocols", "200 OK", "299 ", "300 Multiple Choices",
     "404 Not Found"}

StatusCodeOf(line) ==
    CASE line = "101 Switching Protocols" -> 101
      [] line = "200 OK" -> 200
      [] line = "299 " -> 299
      [] line = "300 Multiple Choices" -> 300
      [] line = "404 Not Found" -> 404

\* response bodies: text that is no JSON value of the expected shape, or
\* a JSON object holding some of the fields id, name and lists
Garbage == [json |-> FALSE]

ListObjects == {[id |-> i, name |-> <<"a">>] : i \in ListIDs}

ListArrays == Strings(ListObjects, MaxLists)

\* a board as GET /1/boards/{id} answers it: the id may be another than the
\* one asked for, or missing (an error object)
BoardBodies ==
    {Garbage}
    \cup {[json |-> TRUE, obj |-> o] :
            o \in {[name |-> <<"a">>], [id |-> <<"B", "1">>, name |-> <<"a">>],
                   [id |-> <<"B", "2">>, name |-> <<"a">>]}}

\* a board as GET /1/boards/{id}?lists=all answers it
BoardListsBodies ==
    {Garbage, [json |-> TRUE, obj |-> [name |-> <<"a">>]]}
    \cup {[json |-> TRUE, obj |-> [id |-> <<"B", "1">>, name |-> <<"a">>, lists |-> a]] :
            a \in ListArrays}

ListBodies == {Garbage, [json |-> TRUE, obj |-> [id |-> <<"L", "1">>, name |-> <<"a">>]]}

\* what the transport gives back for one request: an error, or a response
Answers(bodies) ==
    {[answered |-> FALSE]}
    \cup {[answered |-> TRUE, Status |-> s, StatusCode |-> StatusCodeOf(s),
           Body |-> b] : s \in StatusLines, b \in bodies}

\* http.DefaultClient.Do: the request goes out once; an error or a response
Do(req, net) ==
    IF net.answered
    THEN [err |-> NoErr, resp |-> net]
    ELSE [err |-> TransportErr, resp |-> Nil]

\* a JSON field decoded into a Go field: the zero value when it is absent
Field(obj, name, zero) == IF name \in DOMAIN obj THEN obj[name] ELSE zero

NilSlice == [isNil |-> TRUE, elems |-> <<>>]

\* json.Decode into a list: its client is no JSON field
DecodeList(obj, l) ==
    [client |-> l.client,
     ID |-> Field(obj, "id", l.ID),
     ListName |-> Field(obj, "name", l.ListName)]

ZeroList == [client |-> Nil, ID |-> <<>>, ListName |-> <<>>]

\* json.NewDecoder(resp.Body).Decode(&d), d a board
DecodeBoard(body) ==
    IF ~body.json THEN [err |-> DecodeErr, d |-> Nil]
    ELSE [err |-> NoErr,
          d |-> [client |-> Nil,
                 ID |-> Field(body.obj, "id", <<>>),
                 BoardName |-> Field(body.obj, "name", <<>>),
                 BoardLists |->
                     IF "lists" \in DOMAIN body.obj
                     THEN [isNil |-> FALSE,
                           elems |-> [i \in 1..Len(body.obj.lists) |->
                                        DecodeList(body.obj.lists[i], ZeroList)]]
                     ELSE NilSlice]]

\* a token appended whether or not the client has one
AppendTokenAlways(restURL, cl) == restURL \o <<"&", "token", "=">> \o cl.token

\* the if that appends the token to every URL
AppendToken(restURL, cl) ==
    IF Len(cl.token) > 0
    THEN restURL \o <<"&", "token", "=">> \o cl.token
    ELSE restURL

\* a test that takes only the 4xx and 5xx codes for failures
BadStatusLoose(resp) == resp.StatusCode >= 400

\* the test of the status code in Rename, Close and Create
BadStatus(resp) == resp.StatusCode < 200 \/ resp.StatusCode > 299

StatusErr(resp) == [kind |-> "status", msg |-> <<"bad response code: ", resp.Status>>]

\* what a call did: the requests it issued, the response it received (or
\* Nil), whether it left the body open, and the error and value it returned
Outcome(reqs, resp, bodyOpen, err, val) ==
    [reqs |-> reqs, resp |-> resp, bodyOpen |-> bodyOpen, err |-> err, val |-> val]

---------------------------------------------------------------------------
(* The operations.  Each is written in two parts, as the code is: the     *)
(* request it builds (XRequest, up to http.NewRequest and its error       *)
(* check) and what it does with the transport's answer (X, from           *)
(* http.DefaultClient.Do to the return).                                  *)

\* boardService.GetBoard, the request
GetBoardRequest(cl, id) ==
    NewRequest("GET",
        AppendToken(
            baseURL \o <<"/", "1", "/", "boards", "/">> \o id
                    \o <<"?", "key", "=">> \o cl.key, cl))

\* a GetBoard that trusts the id it was asked for
GetBoardKeepID(cl, id, r, net) ==
    IF r.err # NoErr THEN Outcome(<<>>, Nil, FALSE, r.err, Nil)
    ELSE IF ~net.answered THEN Outcome(<<r.req>>, Nil, FALSE, TransportErr, Nil)
    ELSE IF ~net.Body.json THEN Outcome(<<r.req>>, net, FALSE, DecodeErr, Nil)
    ELSE Outcome(<<r.req>>, net, FALSE, NoErr,
                 [DecodeBoard(net.Body).d EXCEPT !.client = cl, !.ID = id])

\* a GetBoard that refuses a status outside 200..299, as Create does
GetBoardChecked(cl, id, r, net) ==
    IF r.err # NoErr THEN Outcome(<<>>, Nil, FALSE, r.err, Nil)
    ELSE IF ~net.answered THEN Outcome(<<r.req>>, Nil, FALSE, TransportErr, Nil)
    ELSE IF net.StatusCode < 200 \/ net.StatusCode > 299
         THEN Outcome(<<r.req>>, net, FALSE,
                      [kind |-> "status", msg |-> <<"bad response code: ", net.Status>>],
                      Nil)
    ELSE IF ~net.Body.json THEN Outcome(<<r.req>>, net, FALSE, DecodeErr, Nil)
    ELSE Outcome(<<r.req>>, net, FALSE, NoErr,
                 [DecodeBoard(net.Body).d EXCEPT !.client = cl])

\* boardService.GetBoard, from the exchange on
GetBoard(cl, id, r, net) ==
    IF r.err # NoErr THEN Outcome(<<>>, Nil, FALSE, r.err, Nil)
    ELSE \* resp, err := http.DefaultClient.Do(req)
         LET x == Do(r.req, net)
         IN  IF x.err # NoErr THEN Outcome(<<r.req>>, Nil, FALSE, x.err, Nil)
             ELSE LET dec == DecodeBoard(x.resp.Body)
                  IN  IF dec.err # NoErr
                      THEN \* resp.Body.Close(); return nil, err
                           Outcome(<<r.req>>, x.resp, FALSE, dec.err, Nil)
                      ELSE \* resp.Body.Close(); d.client = b.client
                           Outcome(<<r.req>>, x.resp, FALSE, NoErr,
                                   [dec.d EXCEPT !.client = cl])

\* the earlier variant of board.Lists stamped the decoded board, not its lists
StampEarlier(d, b) ==
    [isNil |-> FALSE, elems |-> d.BoardLists.elems]

\* a collection grown by append from a nil slice: nil while it is empty
StampAppend(d, b) ==
    [isNil |-> d.BoardLists.elems = <<>>,
     elems |-> [i \in 1..Len(d.BoardLists.elems) |->
                  [d.BoardLists.elems[i] EXCEPT !.client = b.client]]]

\* the loop of board.Lists: make([]List, len(d.BoardLists)), each list
\* stamped with the board's client
Stamp(d, b) ==
    [isNil |-> FALSE,
     elems |-> [i \in 1..Len(d.BoardLists.elems) |->
                  [d.BoardLists.elems[i] EXCEPT !.client = b.client]]]

\* board.Lists, the request
ListsRequest(b) ==
    NewRequest("GET",
        AppendToken(
            baseURL \o <<"/", "1", "/", "boards", "/">> \o b.ID
                    \o <<"?", "key", "=">> \o b.client.key
                    \o <<"&", "lists", "=", "all">>, b.client))

\* a Lists that asks again when the body does not decode
ListsRetry(b, r, net) ==
    IF r.err # NoErr THEN Outcome(<<>>, Nil, FALSE, r.err, NilSlice)
    ELSE IF ~net.answered THEN Outcome(<<r.req>>, Nil, FALSE, TransportErr, NilSlice)
    ELSE IF ~net.Body.json
         THEN Outcome(<<r.req, r.req>>, net, FALSE, DecodeErr, NilSlice)
    ELSE Outcome(<<r.req>>, net, FALSE, NoErr,
                 [isNil |-> FALSE,
                  elems |-> [i \in 1..Len(DecodeBoard(net.Body).d.BoardLists.elems) |->
                      [DecodeBoard(net.Body).d.BoardLists.elems[i]
                          EXCEPT !.client = b.client]]])

\* board.Lists, from the exchange on
Lists(b, r, net) ==
    IF r.err # NoErr THEN Outcome(<<>>, Nil, FALSE, r.err, NilSlice)
    ELSE LET x == Do(r.req, net)
         IN  IF x.err # NoErr THEN Outcome(<<r.req>>, Nil, FALSE, x.err, NilSlice)
             ELSE LET dec == DecodeBoard(x.resp.Body)
                  IN  IF dec.err # NoErr
                      THEN Outcome(<<r.req>>, x.resp, FALSE, dec.err, NilSlice)
                      ELSE Outcome(<<r.req>>, x.resp, FALSE, NoErr, Stamp(dec.d, b))

\* the exchange of Rename and of Close: no path closes the response's body
Put(r, net) ==
    IF r.err # NoErr THEN Outcome(<<>>, Nil, FALSE, r.err, Nil)
    ELSE LET x == Do(r.req, net)
         IN  IF x.err # NoErr THEN Outcome(<<r.req>>, Nil, FALSE, x.err, Nil)
             ELSE IF BadStatus(x.resp)
                  THEN Outcome(<<r.req>>, x.resp, TRUE, StatusErr(x.resp), Nil)
                  ELSE Outcome(<<r.req>>, x.resp, TRUE, NoErr, Nil)

\* list.Rename, the request
RenameRequest(l, newName) ==
    NewRequest("PUT",
        AppendToken(
            baseURL \o <<"/", "1", "/", "lists", "/">> \o l.ID
                    \o <<"/", "name", "?", "key", "=">> \o l.client.key
                    \o <<"&", "value", "=">> \o QueryEscape(newName), l.client))

\* list.Rename, from the exchange on
Rename(l, r, net) == Put(r, net)

\* list.Close, the request: the endpoint of Rename, with the value true
CloseRequest(l) ==
    NewRequest("PUT",
        AppendToken(
            baseURL \o <<"/", "1", "/", "lists", "/">> \o l.ID
                    \o <<"/", "name", "?", "key", "=">> \o l.client.key
                    \o <<"&", "value", "=", "true">>, l.client))

\* list.Close, from the exchange on
Close(l, r, net) == Put(r, net)

\* listService.Create, the request
CreateRequest(cl, name, boardID, pos) ==
    LET url0 == baseURL \o <<"/", "1", "/", "lists", "?", "key", "=">> \o cl.key
                    \o <<"&", "name", "=">> \o QueryEscape(name)
                    \o <<"&", "idBoard", "=">> \o QueryEscape(boardID)
        url1 == IF Len(pos) > 0 THEN url0 \o <<"&", "pos", "=">> \o pos ELSE url0
    IN  NewRequest("POST", AppendToken(url1, cl))

\* listService.Create, from the exchange on: a bad status returns before
\* the body is closed
Create(cl, r, net) ==
    IF r.err # NoErr THEN Outcome(<<>>, Nil, FALSE, r.err, Nil)
    ELSE LET x == Do(r.req, net)
         IN  IF x.err # NoErr THEN Outcome(<<r.req>>, Nil, FALSE, x.err, Nil)
             ELSE IF BadStatus(x.resp)
                  THEN Outcome(<<r.req>>, x.resp, TRUE, StatusErr(x.resp), Nil)
             ELSE IF ~x.resp.Body.json
                  THEN Outcome(<<r.req>>, x.resp, FALSE, DecodeErr, Nil)
             ELSE Outcome(<<r.req>>, x.resp, FALSE, NoErr,
                          DecodeList(x.resp.Body.obj,
                                     [ZeroList EXCEPT !.client = cl]))

---------------------------------------------------------------------------
(* The state machine: a caller making one call after another *)

NoCall ==
    [op |-> "none", arg |-> <<>>, nreq |-> 0, resp |-> Nil,
     err |-> NoErr, val |-> Nil]

Init ==
    /\ c \in {NewClient(k, t) : k \in Keys, t \in Tokens}
    /\ board = Nil
    /\ lists = Nil
    /\ created = Nil
    /\ nsent = 0
    /\ lastReq = Nil
    /\ open = 0
    /\ calls = 0
    /\ ret = NoCall

\* the part of a call that is the same for every operation: the requests
\* reach the transport, an unclosed body stays open, the caller gets (val, err)
Called(op, arg, r) ==
    /\ calls' = calls + 1
    /\ nsent' = nsent + Len(r.reqs)
    /\ lastReq' = IF r.reqs = <<>> THEN lastReq ELSE r.reqs[Len(r.reqs)]
    /\ open' = open + (IF r.bodyOpen THEN 1 ELSE 0)
    /\ ret' = [op |-> op, arg |-> arg, nreq |-> Len(r.reqs),
               resp |-> r.resp, err |-> r.err, val |-> r.val]

CallGetBoard ==
    /\ calls < MaxCalls
    /\ \E id \in BoardIDs : \E req \in {GetBoardRequest(c, id)} :
       \E net \in Answers(BoardBodies) : \E r \in {GetBoard(c, id, req, net)} :
          /\ Called("GetBoard", id, r)
          /\ board' = IF r.err = NoErr THEN r.val ELSE board
    /\ UNCHANGED <<c, lists, created>>

CallLists ==
    /\ calls < MaxCalls
    /\ board # Nil
    /\ \E req \in {ListsRequest(board)} :
       \E net \in Answers(BoardListsBodies) : \E r \in {Lists(board, req, net)} :
          /\ Called("Lists", <<>>, r)
          /\ lists' = IF r.err = NoErr THEN r.val ELSE lists
    /\ UNCHANGED <<c, board, created>>

\* the lists the caller holds
Held ==
    (IF lists = Nil THEN {} ELSE {lists.elems[i] : i \in 1..Len(lists.elems)})
    \cup (IF created = Nil THEN {} ELSE {created})

CallRename ==
    /\ calls < MaxCalls
    /\ \E l \in Held, newName \in Names : \E req \in {RenameRequest(l, newName)} :
       \E net \in Answers({Garbage}) : \E r \in {Rename(l, req, net)} :
          Called("Rename", newName, r)
    /\ UNCHANGED <<c, board, lists, created>>

CallClose ==
    /\ calls < MaxCalls
    /\ \E l \in Held : \E req \in {CloseRequest(l)} :
       \E net \in Answers({Garbage}) : \E r \in {Close(l, req, net)} :
          Called("Close", <<>>, r)
    /\ UNCHANGED <<c, board, lists, created>>

CallCreate ==
    /\ calls < MaxCalls
    /\ \E name \in Names, boardID \in BoardIDs, pos \in Positions :
       \E req \in {CreateRequest(c, name, boardID, pos)} :
       \E net \in Answers(ListBodies) : \E r \in {Create(c, req, net)} :
          /\ Called("Create", name, r)
          /\ created' = IF r.err = NoErr THEN r.val ELSE created
    /\ UNCHANGED <<c, board, lists>>

Next == CallGetBoard \/ CallLists \/ CallRename \/ CallClose \/ CallCreate

Spec == Init /\ [][Next]_vars

---------------------------------------------------------------------------
(* Reading a request back, as the server that receives it does *)

Reserved == {" ", "#", "%", "&", "+", "/", "=", "?"}

\* the character %XX stands for
CharOf(hex) ==
    IF \E ch \in Reserved : HexOf(ch) = hex
    THEN CHOOSE ch \in Reserved : HexOf(ch) = hex
    ELSE "<byte>"

\* url.QueryUnescape of a string whose escapes are well formed
RECURSIVE QueryUnescape(_)
QueryUnescape(s) ==
    IF s = <<>> THEN <<>>
    ELSE IF Head(s) = "+" THEN <<" ">> \o QueryUnescape(Tail(s))
    ELSE IF Head(s) = "%"
         THEN <<CharOf(<<s[2], s[3]>>)>> \o QueryUnescape(SubSeq(s, 4, Len(s)))
    ELSE <<Head(s)>> \o QueryUnescape(Tail(s))

\* url.ParseQuery: the name=value pairs between the &, in order; an empty
\* piece and a piece with a malformed escape are dropped
ParseQuery(q) ==
    LET pieces == SelectSeq(Split(q, "&"), LAMBDA p : p # <<>> /\ EscapesOK(p))
    IN  [i \in 1..Len(pieces) |->
            LET p == pieces[i]
                e == IndexOf(p, "=")
            IN  IF e = -1
                THEN [name |-> QueryUnescape(p), value |-> <<>>]
                ELSE [name |-> QueryUnescape(SubSeq(p, 1, e - 1)),
                      value |-> QueryUnescape(SubSeq(p, e + 1, Len(p)))]]

\* the values of parameter `name` in the query of `url`, in order
Values(url, name) ==
    LET hit == SelectSeq(ParseQuery(RawQuery(url)), LAMBDA p : p.name = <<name>>)
    IN  [i \in 1..Len(hit) |-> hit[i].value]

\* the names of the parameters of the query of `url`
ParamNames(url) ==
    LET ps == ParseQuery(RawQuery(url))
    IN  {ps[i].name : i \in 1..Len(ps)}

\* the segments of the path of `url`, after scheme and host
Segments(url) == Tail(Split(PathOf(url), "/"))

\* the text t occurs in s
Occurs(t, s) ==
    \E i \in 1..(Len(s) - Len(t) + 1) : SubSeq(s, i, i + Len(t) - 1) = t

MethodOf(op) ==
    CASE op \in {"GetBoard", "Lists"} -> "GET"
      [] op \in {"Rename", "Close"} -> "PUT"
      [] op = "Create" -> "POST"

\* the last call handed a request to the transport: lastReq is that request
Sent == ret.op # "none" /\ ret.nreq = 1

\* the last call received a response
Answered == ret.op # "none" /\ ret.resp # Nil

---------------------------------------------------------------------------
(* The claims *)

\* C1: every operation that receives a response closes its body before it
\* returns, on every exit path: no return leaves a received body open.
C1_BodiesClosed == open = 0

C3_ClientStamped ==
    /\ board # Nil => board.client = c
    /\ created # Nil => created.client = c
    /\ lists # Nil => \A i \in 1..Len(lists.elems) : lists.elems[i].client = c
    /\ (ret.op \in {"GetBoard", "Create"} /\ ret.err = NoErr) => ret.val.client = c
    /\ (ret.op = "Lists" /\ ret.err = NoErr) =>
          \A i \in 1..Len(ret.val.elems) : ret.val.elems[i].client = c

C3_Witness ==
    /\ ret.op = "Lists"
    /\ ret.err = NoErr
    /\ Len(ret.val.elems) >= 2
    /\ lists = ret.val

\* C4: Close issues a PUT that sets the field `closed` of the list to true,
\* not the field `name` that Rename sets.
C4_CloseSetsClosed ==
    (ret.op = "Close" /\ Sent) =>
        /\ lastReq.method = "PUT"
        /\ Segments(lastReq.url)[Len(Segments(lastReq.url))] = <<"closed">>
        /\ Values(lastReq.url, "value") = <<(<<"true">>)>>

\* C5: Rename, Close and Create, once a response is received, return no
\* error exactly when the status is in 200..299 (and, for Create, the body
\* decodes); otherwise they return an error whose message holds the status
\* text, and Create returns no List.
C5_StatusDecides ==
    (ret.op \in {"Rename", "Close", "Create"} /\ Answered) =>
        LET ok == ret.resp.StatusCode \in 200..299
        IN  /\ ret.err = NoErr <=>
                  (ok /\ (ret.op = "Create" => ret.resp.Body.json))
            /\ ~ok =>
                  /\ ret.err # NoErr
                  /\ \E i \in 1..Len(ret.err.msg) : ret.err.msg[i] = ret.resp.Status
                  /\ ret.val = Nil

C5_Witness ==
    /\ ret.op = "Create"
    /\ Answered
    /\ ret.resp.StatusCode = 300
    /\ ret.resp.Body.json

C7_NameEscaped ==
    /\ (ret.op = "Rename" /\ Sent) =>
          /\ Values(lastReq.url, "value") = <<ret.arg>>
          /\ ParamNames(lastReq.url) \subseteq {<<"key">>, <<"value">>, <<"token">>}
    /\ (ret.op = "Create" /\ Sent) =>
          /\ Values(lastReq.url, "name") = <<ret.arg>>
          /\ ParamNames(lastReq.url) \subseteq
                {<<"key">>, <<"name">>, <<"idBoard">>, <<"pos">>, <<"token">>}

C7_Witness ==
    /\ ret.op = "Rename"
    /\ Sent
    /\ ret.arg = <<"a", "&", "b">>

\* the `lists` array of the body the last call received
DecodedLists ==
    IF "lists" \in DOMAIN ret.resp.Body.obj THEN ret.resp.Body.obj.lists ELSE <<>>

\* C8: Lists returns a collection that is not nil, with as many elements as
\* the `lists` array of the body, in its order, each with the id and name of
\* its entry; for an empty array, an empty collection and no error.
C8_ListsAsDecoded ==
    (ret.op = "Lists" /\ Answered /\ ret.resp.Body.json) =>
        /\ ret.err = NoErr
        /\ ~ret.val.isNil
        /\ Len(ret.val.elems) = Len(DecodedLists)
        /\ \A i \in 1..Len(DecodedLists) :
              /\ ret.val.elems[i].ID = DecodedLists[i].id
              /\ ret.val.elems[i].ListName = DecodedLists[i].name

C8_Witness ==
    /\ ret.op = "Lists"
    /\ Answered
    /\ ret.resp.Body.json
    /\ "lists" \in DOMAIN ret.resp.Body.obj
    /\ DecodedLists = <<>>
    /\ ret.val.elems = <<>>

\* C9: GetBoard and Lists do not look at the status: whatever it is, a body
\* that decodes gives success (a Board, a collection), and the only errors
\* are those of building the request, of the transport and of decoding.
C9_StatusIgnored ==
    ret.op \in {"GetBoard", "Lists"} =>
        /\ (Answered /\ ret.resp.Body.json) =>
              /\ ret.err = NoErr
              /\ ret.val # Nil
              /\ ret.val # NilSlice
        /\ ret.err.kind \in {"nil", "request", "transport", "decode"}

C9_Witness ==
    /\ ret.op = "GetBoard"
    /\ Answered
    /\ ret.resp.StatusCode = 404
    /\ ret.err = NoErr
    /\ ret.val # Nil

\* C10: Lists addresses its GET to the id decoded from the body GetBoard
\* received (empty when the body holds none), not to the id GetBoard was
\* asked for.
C10_ListsUsesDecodedID ==
    /\ (ret.op = "GetBoard" /\ ret.err = NoErr) =>
          /\ ret.val.ID = Field(ret.resp.Body.obj, "id", <<>>)
          /\ board = ret.val
    /\ (ret.op = "Lists" /\ Sent) =>
          Segments(lastReq.url) = <<(<<"1">>), (<<"boards">>), board.ID>>

C10_Witness ==
    /\ ret.op = "Lists"
    /\ Sent
    /\ board.ID = <<"B", "2">>

====
